---------------------------- MODULE Spec2Model ----------------------------
(***************************************************************************)
(* A model of the South Carolina Gamecocks football feed:                  *)
(*   collect.py  - the collector: regex classifier (_strict_keep,          *)
(*                 _fallback_keep), _dedupe, the fallback pass, the sort   *)
(*                 and the items.json payload;                             *)
(*   server.py   - the in-memory server: _is_sc_football, _dedupe,         *)
(*                 fetch_now under _LOCK, and the read handlers.          *)
(* Texts are strings; the regular expressions of collect.py are matched    *)
(* by a small backtracking matcher, the tokens of server.py by substring   *)
(* search.                                                                 *)
(***************************************************************************)
EXTENDS Integers, Sequences, FiniteSets, TLC

VARIABLES
    \* one call of a pure function (classifier, _dedupe, sort)
    arg,        \* the call's input
    res,        \* the call's result, "none" before it returns
    fpc         \* "off" | "start" | "classified" | "deduped" | "ranked"

VARIABLES
    \* one run of collect.py's collect()
    cpc,            \* "off" | "fetch" | "raised" | "filter" | "write" | "done"
    fi,             \* index in FEEDS of the feed the loop fetches next
    items_raw,      \* collect()'s items_raw
    items_strict,   \* collect()'s items_strict
    items,          \* collect()'s items
    payload         \* the content of items.json, "none" while there is no file

VARIABLES
    \* server.py
    ITEMS,          \* the served item list
    UPDATED,        \* the served stamp, "None" before the first cycle
    _LAST_FETCH_TS, \* time.time() of the last cycle, 0 before the first
    _LOCK,          \* the thread that holds _LOCK, or "free"
    wpc,            \* per thread that runs fetch_now: its position
    wraw,           \* per such thread: fetch_now's raw
    clock,          \* the wall clock: an index in Times
    rd,             \* the read handler in flight: handler, position, values read
    cycles          \* the (UPDATED, ITEMS) pairs the cycles so far have stored

fvars == <<arg, res, fpc>>
cvars == <<cpc, fi, items_raw, items_strict, items, payload>>
svars == <<ITEMS, UPDATED, _LAST_FETCH_TS, _LOCK, wpc, wraw, clock, rd, cycles>>
vars == <<fvars, cvars, svars>>

-----------------------------------------------------------------------------
(* Bounds of the model.                                                    *)

\* Most phrases joined (by single spaces) into one title.
MaxTitle == 2

\* Longest list handed to one call of _dedupe or of the sort.
MaxList == 3

\* How many feeds of FEEDS, from the first on, one run of collect() fetches.
CollectFeeds == 3

\* Most entries in a feed of on-topic entries.
MaxRun == 5

\* How many feeds of server.py's FEEDS, from the first on, fetch_now fetches.
ServerFeeds == 2

-----------------------------------------------------------------------------
(* Strings.                                                                *)

\* re's \w restricted to the characters that occur in the modelled texts.
WordChars ==
    {"a","b","c","d","e","f","g","h","i","j","k","l","m",
     "n","o","p","q","r","s","t","u","v","w","x","y","z"}

\* str.lower() on one character.
LowerChar(c) ==
    CASE c = "G" -> "g" [] c = "U" -> "u" [] c = "S" -> "s" [] c = "C" -> "c"
      [] c = "T" -> "t" [] c = "N" -> "n" [] c = "L" -> "l" [] c = "B" -> "b"
      [] OTHER -> c

RECURSIVE Lower(_)
\* str.lower()
Lower(s) == IF s = "" THEN "" ELSE LowerChar(Head(s)) \o Lower(Tail(s))

\* The character of s at position i (1-based), "" outside s.
CharAt(s, i) == IF i >= 1 /\ i <= Len(s) THEN SubSeq(s, i, i) ELSE ""

\* s has the literal lit at position i.
HasAt(s, i, lit) ==
    /\ i + Len(lit) - 1 <= Len(s)
    /\ SubSeq(s, i, i + Len(lit) - 1) = lit

\* `tok in txt`
Contains(txt, tok) == \E i \in 1..(Len(txt) + 1) : HasAt(txt, i, tok)

-----------------------------------------------------------------------------
(* Regular expressions: a pattern is a set of alternatives (the top-level  *)
(* `|`), an alternative a sequence of atoms.                               *)

B        == [k |-> "b"]                      \* \b
L(str)   == [k |-> "lit", s |-> str]          \* literal text
Opt(alt) == [k |-> "opt", alts |-> alt]       \* x? and (x|y)?
WS(min)  == [k |-> "ws", min |-> min]         \* \s+ (min 1), \s* (min 0)
Cls(cs)  == [k |-> "cls", cs |-> cs]          \* [...]

\* \b holds before position i of s: exactly one side is a word character.
AtBoundary(s, i) ==
    (CharAt(s, i - 1) \in WordChars) # (CharAt(s, i) \in WordChars)

\* \s in the modelled texts
IsSpace(c) == c = " "

RECURSIVE MatchFrom(_, _, _, _)
\* The atoms alt[k..] match s from position i on (backtracking over every
\* choice of an optional part and of a whitespace run).
MatchFrom(alt, k, s, i) ==
    IF k > Len(alt) THEN TRUE
    ELSE LET a == alt[k] IN
         CASE a.k = "b"   -> AtBoundary(s, i) /\ MatchFrom(alt, k + 1, s, i)
           [] a.k = "lit" -> HasAt(s, i, a.s) /\ MatchFrom(alt, k + 1, s, i + Len(a.s))
           [] a.k = "opt" -> \/ MatchFrom(alt, k + 1, s, i)
                             \/ \E x \in a.alts :
                                  HasAt(s, i, x) /\ MatchFrom(alt, k + 1, s, i + Len(x))
           [] a.k = "cls" -> CharAt(s, i) \in a.cs /\ MatchFrom(alt, k + 1, s, i + 1)
           [] a.k = "ws"  -> \E n \in a.min..(Len(s) + 1 - i) :
                                  /\ \A j \in i..(i + n - 1) : IsSpace(CharAt(s, j))
                                  /\ MatchFrom(alt, k + 1, s, i + n)

\* re.search(p, text, flags=re.I) on an already lowercased text
Search(p, text) ==
    \E alt \in p : \E i \in 1..(Len(text) + 1) : MatchFrom(alt, 1, text, i)

STRONG_ANY ==
    { { <<B, L("gamecock"), Opt({"s"}), B>> },
      { <<B, L("shane"), WS(1), L("beamer"), B>> },
      { <<B, L("williams"), Cls({"-", " "}), L("brice"), B>> },
      { <<B, L("spurs"), WS(0), L("up"), B>> },
      { <<B, L("gamecock"), WS(0), L("central"), B>> } }

SC_OR_USC ==
    { { <<B, L("south"), WS(0), L("carolina"), B>> },
      { <<B, L("usc"), B>> } }

FOOTBALL_TERMS ==
    { { <<B, L("football"), B>> },
      { <<B, L("coach"), Opt({"es", "ing"}), B>> },
      { <<B, L("quarterback")>>, <<L("qb"), B>> },
      { <<B, L("defense")>>, <<L("offense"), B>> },
      { <<B, L("sec"), B>> },
      { <<B, L("ncaa"), B>> },
      { <<B, L("recruit")>>, <<B, L("commit")>>, <<B, L("transfer portal"), B>> },
      { <<B, L("spring game"), B>> },
      { <<B, L("depth chart"), B>> } }

EXCLUDE_OTHER_SPORTS ==
    { { <<B, L("women"), Opt({"'"}), L("s"), B>> },
      { <<B, L("wbb"), B>> },
      { <<B, L("basketball"), B>> },
      { <<B, L("baseball"), B>> },
      { <<B, L("softball"), B>> },
      { <<B, L("volleyball"), B>> },
      { <<B, L("soccer"), B>> },
      { <<B, L("track"), B>> },
      { <<B, L("golf"), B>> } }

NEGATIVE_USC ==
    { { <<B, L("trojans"), B>> },
      { <<B, L("lincoln"), WS(1), L("riley"), B>> },
      { <<B, L("usc"), WS(1), L("trojans"), B>> } }

_matches_any(patterns, text) == \E p \in patterns : Search(p, text)

\* _strict_keep with the strong-token test moved ahead of the exclusion test.
_strict_keep_strong_first(text) ==
    IF _matches_any(STRONG_ANY, text) THEN TRUE
    ELSE IF _matches_any(EXCLUDE_OTHER_SPORTS, text) THEN FALSE
    ELSE IF _matches_any(SC_OR_USC, text)
              /\ ~_matches_any(NEGATIVE_USC, text)
              /\ _matches_any(FOOTBALL_TERMS, text) THEN TRUE
    ELSE FALSE

\* _strict_keep with the Trojans guard moved ahead of the strong-token test.
_strict_keep_guard_first(text) ==
    IF _matches_any(EXCLUDE_OTHER_SPORTS, text) THEN FALSE
    ELSE IF _matches_any(NEGATIVE_USC, text) THEN FALSE
    ELSE IF _matches_any(STRONG_ANY, text) THEN TRUE
    ELSE IF _matches_any(SC_OR_USC, text)
              /\ _matches_any(FOOTBALL_TERMS, text) THEN TRUE
    ELSE FALSE

\* _strict_keep without the Trojans guard.
_strict_keep_no_guard(text) ==
    IF _matches_any(EXCLUDE_OTHER_SPORTS, text) THEN FALSE
    ELSE IF _matches_any(STRONG_ANY, text) THEN TRUE
    ELSE IF _matches_any(SC_OR_USC, text)
              /\ _matches_any(FOOTBALL_TERMS, text) THEN TRUE
    ELSE FALSE

_strict_keep(text) ==
    IF _matches_any(EXCLUDE_OTHER_SPORTS, text) THEN FALSE
    ELSE IF _matches_any(STRONG_ANY, text) THEN TRUE
    ELSE IF _matches_any(SC_OR_USC, text)
              /\ ~_matches_any(NEGATIVE_USC, text)
              /\ _matches_any(FOOTBALL_TERMS, text) THEN TRUE
    ELSE FALSE

\* _fallback_keep with the Trojans guard on the ambiguous name only, as the
\* guard of _strict_keep.
_fallback_keep_strong_first(text) ==
    IF _matches_any(EXCLUDE_OTHER_SPORTS, text) THEN FALSE
    ELSE IF _matches_any(STRONG_ANY, text) THEN TRUE
    ELSE IF _matches_any(SC_OR_USC, text) THEN ~_matches_any(NEGATIVE_USC, text)
    ELSE FALSE

\* _fallback_keep that still asks for a football term beside the state name.
_fallback_keep_needs_football(text) ==
    IF _matches_any(EXCLUDE_OTHER_SPORTS, text) THEN FALSE
    ELSE IF _matches_any(STRONG_ANY, text)
              \/ (_matches_any(SC_OR_USC, text) /\ _matches_any(FOOTBALL_TERMS, text))
         THEN ~_matches_any(NEGATIVE_USC, text)
    ELSE FALSE

_fallback_keep(text) ==
    IF _matches_any(EXCLUDE_OTHER_SPORTS, text) THEN FALSE
    ELSE IF _matches_any(STRONG_ANY, text) \/ _matches_any(SC_OR_USC, text)
         THEN ~_matches_any(NEGATIVE_USC, text)
    ELSE FALSE

\* collect.py's classifier input: f"{it['title']} {it['summary']}".lower()
CollectText(t, s) == Lower(t \o " " \o s)

-----------------------------------------------------------------------------
(* server.py's filter.                                                     *)

POS_STRONG == {"gamecocks", "shane beamer", "williams-brice", "gamecockcentral", "spurs up"}
POS_FB ==
    {"football", "cfb", "sec", "depth chart", "spring game", "recruit", "commit",
     "transfer portal", "qb", "quarterback", "wide receiver", "defense", "offense",
     "coach", "coaching", "gameday"}
NEG_UNC == {"north carolina", "tar heels", "unc "}
NEG_TROJANS == {"usc trojans", "lincoln riley", "southern cal", "so cal"}
NEG_OTHER_SPORTS ==
    {"women's", "wbb", "basketball", "baseball", "softball", "volleyball", "soccer",
     "track", "golf"}

\* any(n in txt for n in toks)
AnyIn(toks, txt) == \E n \in toks : Contains(txt, n)

\* _is_sc_football with the strong tokens tested right behind the other
\* sports, ahead of the Trojans and North Carolina guards.
_is_sc_football_strong_first(txt) ==
    IF AnyIn(NEG_OTHER_SPORTS, txt) THEN FALSE
    ELSE IF AnyIn(POS_STRONG, txt) THEN TRUE
    ELSE IF Contains(txt, "usc") /\ AnyIn(NEG_TROJANS, txt) THEN FALSE
    ELSE IF AnyIn(NEG_UNC, txt)
              /\ ~Contains(txt, "south carolina") /\ ~Contains(txt, "gamecocks") THEN FALSE
    ELSE IF Contains(txt, "south carolina") \/ Contains(txt, "gamecocks")
         THEN AnyIn(POS_FB, txt) \/ Contains(txt, "football")
    ELSE IF Contains(txt, "usc")
         THEN AnyIn(POS_FB, txt) /\ ~AnyIn(NEG_TROJANS, txt)
    ELSE FALSE

_is_sc_football(txt) ==
    IF AnyIn(NEG_OTHER_SPORTS, txt) THEN FALSE
    ELSE IF Contains(txt, "usc") /\ AnyIn(NEG_TROJANS, txt) THEN FALSE
    ELSE IF AnyIn(NEG_UNC, txt)
              /\ ~Contains(txt, "south carolina") /\ ~Contains(txt, "gamecocks") THEN FALSE
    ELSE IF AnyIn(POS_STRONG, txt) THEN TRUE
    ELSE IF Contains(txt, "south carolina") \/ Contains(txt, "gamecocks")
         THEN AnyIn(POS_FB, txt) \/ Contains(txt, "football")
    ELSE IF Contains(txt, "usc")
         THEN AnyIn(POS_FB, txt) /\ ~AnyIn(NEG_TROJANS, txt)
    ELSE FALSE

\* server.py's _txt: f"{title} {summary}".lower()
ServerText(t, s) == Lower(t \o " " \o s)

-----------------------------------------------------------------------------
(* _dedupe (the same code in collect.py and in server.py).                 *)

\* The key with the source left out of the tuple.
DedupeKey_title_only(it) ==
    IF it.link # "" THEN <<"str", it.link>> ELSE <<"tuple", it.title>>

\* k = it["link"] or (it["title"], it["source"]): a str when the link is
\* not empty, else a tuple; a str never equals a tuple, which the first
\* component records.
DedupeKey(it) ==
    IF it.link # "" THEN <<"str", it.link>> ELSE <<"tuple", it.title, it.source>>

\* seen when the loop of _dedupe comes to lst[i]: the key of every item
\* before it, kept or not.
Seen(lst, i) == {DedupeKey(lst[j]) : j \in 1..(i - 1)}

\* out at the end of the loop of _dedupe: the items whose key is not in
\* seen when the loop comes to them, in their order.
DedupeLoop(lst) ==
    IF lst = <<>> THEN <<>>
    ELSE LET kept == SelectSeq([i \in 1..Len(lst) |-> i],
                               LAMBDA i : DedupeKey(lst[i]) \notin Seen(lst, i))
         IN  IF kept = <<>> THEN <<>> ELSE [p \in 1..Len(kept) |-> lst[kept[p]]]

\* server.py's _dedupe
_dedupe(lst) == DedupeLoop(lst)

\* collect()'s inner _dedupe
collect_dedupe(lst) == DedupeLoop(lst)

-----------------------------------------------------------------------------
(* The final sort.                                                         *)

\* The characters of the modelled published strings, by code point.
CodeOrder == " ,0123456789:FJMTadeinoru"

\* The place of each of these characters in CodeOrder.
CodePlace ==
    [c \in {SubSeq(CodeOrder, i, i) : i \in 1..Len(CodeOrder)} |->
        CHOOSE i \in 1..Len(CodeOrder) : SubSeq(CodeOrder, i, i) = c]

\* ord(c), up to an order-preserving renumbering
Ord(c) == CodePlace[c]

RECURSIVE StrLess(_, _)
\* a < b on str: by code point, a proper prefix first
StrLess(a, b) ==
    IF a = b \/ b = "" THEN FALSE
    ELSE IF a = "" THEN TRUE
    ELSE IF Head(a) = Head(b) THEN StrLess(Tail(a), Tail(b))
    ELSE Ord(Head(a)) < Ord(Head(b))

\* The server's key with the published string left out.
ServerKeyLess_ts_only(a, b) == a._ts < b._ts

\* server.py's sort key (x.get("_ts", 0), x.get("published", "")), compared
\* as tuples
ServerKeyLess(a, b) ==
    \/ a._ts < b._ts
    \/ a._ts = b._ts /\ StrLess(a.published, b.published)

\* collect.py's sort key x.get("published", "")
CollectKeyLess(a, b) == StrLess(a.published, b.published)

\* key(a) < key(b) for the sort of `by`: "server" or "collect"
KeyLess(by, a, b) ==
    IF by = "server" THEN ServerKeyLess(a, b) ELSE CollectKeyLess(a, b)

\* How many items of lst the sort puts ahead of lst[i]: those of a greater
\* key, and those before it in lst of an equal key.
Ahead(lst, i, by) ==
    Cardinality({j \in 1..Len(lst) :
                    IF j < i THEN ~KeyLess(by, lst[j], lst[i])
                    ELSE KeyLess(by, lst[i], lst[j])})

\* list.sort(key=..., reverse=True): stable, descending.
SortDesc(lst, by) ==
    IF lst = <<>> THEN <<>>
    ELSE LET placed == {<<Ahead(lst, i, by) + 1, i>> : i \in 1..Len(lst)}
         IN  [p \in 1..Len(lst) |-> lst[(CHOOSE pl \in placed : pl[1] = p)[2]]]

\* kept.sort(key=lambda x: (x.get("_ts", 0), x.get("published", "")), reverse=True)
ServerSort(lst) == SortDesc(lst, "server")

\* items.sort(key=lambda x: x.get("published", ""), reverse=True)
CollectSort(lst) == SortDesc(lst, "collect")

-----------------------------------------------------------------------------
(* The classifiers applied to bounded inputs.                              *)

\* What titles and summaries are made of.
Phrases ==
    {"Gamecocks", "Shane Beamer", "USC", "South Carolina", "Trojans",
     "football", "golf", "soundtrack", "North Carolina", "tourism"}

RECURSIVE Joined(_)
\* The titles made of at most n phrases.
Joined(n) ==
    IF n = 0 THEN {""}
    ELSE LET shorter == Joined(n - 1) IN
         shorter \cup Phrases \cup
             {t \o " " \o p : t \in shorter \ {""}, p \in Phrases}

Titles == Joined(MaxTitle)
Summaries == {""} \cup Phrases

CollectIdle ==
    /\ cpc = "off" /\ fi = 0 /\ items_raw = <<>> /\ items_strict = <<>>
    /\ items = <<>> /\ payload = "none"

\* The threads that run fetch_now: the warm-start thread, started when the
\* module is loaded, and the thread of a /collect-open or /debug-collect
\* request.
Threads == {"warm_start", "request"}

ServerIdle ==
    /\ ITEMS = <<>> /\ UPDATED = "None" /\ _LAST_FETCH_TS = 0 /\ _LOCK = "free"
    /\ wpc = [w \in Threads |-> "off"]
    /\ wraw = [w \in Threads |-> <<>>]
    /\ clock = 1
    /\ rd = [pc |-> "off", handler |-> "none", updated |-> "unread", items |-> <<>>]
    /\ cycles = {}

FunIdle == arg = "none" /\ res = "none" /\ fpc = "off"

ClassifyInit ==
    /\ CollectIdle
    /\ ServerIdle
    /\ arg \in [title : Titles, summary : Summaries]
    /\ res = "none"
    /\ fpc = "start"

Classify ==
    /\ fpc = "start"
    /\ res' = [strict   |-> _strict_keep(CollectText(arg.title, arg.summary)),
               fallback |-> _fallback_keep(CollectText(arg.title, arg.summary)),
               serve    |-> _is_sc_football(ServerText(arg.title, arg.summary))]
    /\ fpc' = "classified"
    /\ UNCHANGED <<arg, cvars, svars>>

ClassifyNext == Classify

SpecClassify == ClassifyInit /\ [][ClassifyNext]_vars

-----------------------------------------------------------------------------
(* _dedupe applied to bounded lists.                                       *)

\* The sequences over S of length at most n.
SeqUpTo(S, n) == UNION {[1..k -> S] : k \in 0..n}

DedupeItems ==
    [link : {"", "https://a/1", "https://a/2"}, title : {"A", "B"}, source : {"S1", "S2"}]

DedupeInit ==
    /\ CollectIdle
    /\ ServerIdle
    /\ arg \in SeqUpTo(DedupeItems, MaxList)
    /\ res = "none"
    /\ fpc = "start"

Dedupe ==
    /\ fpc = "start"
    /\ res' = [server |-> _dedupe(arg), collect |-> collect_dedupe(arg)]
    /\ fpc' = "deduped"
    /\ UNCHANGED <<arg, cvars, svars>>

DedupeNext == Dedupe

SpecDedupe == DedupeInit /\ [][DedupeNext]_vars

-----------------------------------------------------------------------------
(* The sorts applied to bounded lists of items with distinct keys.         *)

\* _ts: 0 when the entry has no parsed date, else time.mktime of it.
TsValues == {0, 1704103200, 1704189600}
PublishedValues == {"", "Fri, 05 Jan", "Mon, 01 Jan", "Tue, 02 Jan"}

\* The link of the i-th item of a list.
LinkNo(i) == "https://n/" \o ToString(i)

\* Lists of at most MaxList items, the i-th with link LinkNo(i).
RankLists ==
    UNION { { [i \in 1..k |-> [link |-> LinkNo(i), _ts |-> f[i][1], published |-> f[i][2]]] :
                f \in [1..k -> TsValues \X PublishedValues] } : k \in 0..MaxList }

RankInit ==
    /\ CollectIdle
    /\ ServerIdle
    /\ arg \in RankLists
    /\ res = "none"
    /\ fpc = "start"

Rank ==
    /\ fpc = "start"
    /\ res' = [server |-> ServerSort(arg), collect |-> CollectSort(arg)]
    /\ fpc' = "ranked"
    /\ UNCHANGED <<arg, cvars, svars>>

RankNext == Rank

SpecRank == RankInit /\ [][RankNext]_vars

-----------------------------------------------------------------------------
(* collect.py: one run of collect().                                       *)

FEEDS ==
    << [name |-> "Google News - Gamecocks Football",
        url  |-> "https://news.google.com/rss/search?q=%22South+Carolina%22+Gamecocks+football&hl=en-US&gl=US&ceid=US:en"],
       [name |-> "Google News - South Carolina Football",
        url  |-> "https://news.google.com/rss/search?q=%22South+Carolina%22+football&hl=en-US&gl=US&ceid=US:en"],
       [name |-> "Google News - Gamecocks",
        url  |-> "https://news.google.com/rss/search?q=Gamecocks+football&hl=en-US&gl=US&ceid=US:en"],
       [name |-> "Google News - Shane Beamer",
        url  |-> "https://news.google.com/rss/search?q=%22Shane+Beamer%22&hl=en-US&gl=US&ceid=US:en"],
       [name |-> "Bing News - Gamecocks Football",
        url  |-> "https://www.bing.com/news/search?q=South+Carolina+Gamecocks+football&format=rss"],
       [name |-> "Bing News - Shane Beamer",
        url  |-> "https://www.bing.com/news/search?q=Shane+Beamer&format=rss"],
       [name |-> "Garnet & Black Attack",
        url  |-> "https://www.garnetandblackattack.com/rss/index.xml"],
       [name |-> "The State - USC Football",
        url  |-> "https://www.thestate.com/sports/college/university-of-south-carolina/usc-football/?outputType=amp&type=rss"],
       [name |-> "ESPN - CFB News",
        url  |-> "https://www.espn.com/espn/rss/ncf/news"] >>

THRESH == 12
MaxItems == 250
SummaryMax == 400

RECURSIVE LStrip(_)
LStrip(s) == IF s # "" /\ IsSpace(Head(s)) THEN LStrip(Tail(s)) ELSE s

RECURSIVE RStrip(_)
RStrip(s) ==
    IF s # "" /\ IsSpace(CharAt(s, Len(s))) THEN RStrip(SubSeq(s, 1, Len(s) - 1)) ELSE s

\* str.strip()
Strip(s) == RStrip(LStrip(s))

\* s from behind its first ">" on
AfterClose(s) == SubSeq(s, (CHOOSE i \in 1..Len(s) : HasAt(s, i, ">")
                              /\ \A j \in 1..(i - 1) : ~HasAt(s, j, ">")) + 1, Len(s))

RECURSIVE _strip_html(_)
\* re.sub(r"<.*?>", "", s or ""): every "<" up to the nearest ">" behind it
\* goes; a "<" with no ">" behind it stays.
_strip_html(s) ==
    IF s = "" THEN ""
    ELSE IF Head(s) = "<" /\ Contains(Tail(s), ">") THEN _strip_html(AfterClose(Tail(s)))
    ELSE Head(s) \o _strip_html(Tail(s))

\* s[:n + 1]
Prefix_one_more(s, n) == SubSeq(s, 1, IF Len(s) < n + 1 THEN Len(s) ELSE n + 1)

\* s[:n]
Prefix(s, n) == SubSeq(s, 1, IF Len(s) < n THEN Len(s) ELSE n)

\* a or b, on str
OrElse(a, b) == IF a # "" THEN a ELSE b

\* A feed entry as feedparser gives it; a field the entry lacks is "".
Entry(t, l, id, s, d, p, u) ==
    [title |-> t, link |-> l, id |-> id, summary |-> s, description |-> d,
     published |-> p, updated |-> u]

_normalize(feed_name, feed_url, e) ==
    [source     |-> feed_name,
     source_url |-> feed_url,
     title      |-> Strip(e.title),
     link       |-> OrElse(e.link, e.id),
     summary    |-> Prefix(_strip_html(Strip(OrElse(e.summary, e.description))), SummaryMax),
     published  |-> OrElse(e.published, e.updated)]

\* text / t in collect(): f"{it['title']} {it['summary']}".lower()
ItemText(it) == CollectText(it.title, it.summary)

\* The published strings of a feed of on-topic entries, in feed order.
RunPublished == <<"Tue, 02 Jan", "Mon, 01 Jan", "Fri, 05 Jan", "">>

\* The k-th entry of feed f in a feed of on-topic entries.
RunEntry(f, k) ==
    Entry("Gamecocks football",
          "https://example.com/" \o ToString(f) \o "/" \o ToString(k), "", "", "",
          RunPublished[((k - 1) % Len(RunPublished)) + 1], "")

\* A feed of n on-topic entries, each with a link of its own.
Run(f, n) == [k \in 1..n |-> RunEntry(f, k)]

\* A feed of mixed entries: one that only names the state, under the link
\* of the next one; one every feed carries under the same link; one
\* that only names the state (its link in the id field, markup in its
\* summary), one off topic, and twice an entry without link or id that has
\* a strong token beside a Trojans token.
Mixed(f) ==
    << Entry("South Carolina tourism", "https://example.com/shared", "", "", "", "Fri, 05 Jan", ""),
       Entry("Gamecocks football", "https://example.com/shared", "", "", "", "Tue, 02 Jan", ""),
       Entry(" South Carolina ", "", "https://example.com/" \o ToString(f) \o "/id",
             "<b>tourism</b> ", "", "", "Mon, 01 Jan"),
       Entry("tourism", "https://example.com/" \o ToString(f) \o "/off", "", "", "", "Fri, 05 Jan", ""),
       Entry("Gamecocks", "", "", "", "<p>Trojans", "Mon, 01 Jan", ""),
       Entry("Gamecocks", "", "", "", "<p>Trojans", "Fri, 05 Jan", "") >>

\* What _fetch_and_parse(url).get("entries", []) may be for feed f: nothing
\* (the feed is down or empty), or one of the feeds above.
FeedEntries(f) == {<<>>, Run(f, MaxRun - 1), Run(f, MaxRun), Mixed(f)}

\* A feed so long that, with the feeds above behind it, a run ends with
\* fewer items than items.json may hold, as many, or more.
LongFeed(f) == Run(f, MaxItems - MaxRun + 1)

\* What _fetch_and_parse(url).get("entries", []) may be for feed f, the
\* first feed of FEEDS being the one that may be long.
EntriesOf(f) == FeedEntries(f) \cup (IF f = 1 THEN {LongFeed(f)} ELSE {})

\* [_normalize(name, url, e) for e in es]
MapNormalize(name, url, es) ==
    IF es = <<>> THEN <<>>
    ELSE [i \in 1..Len(es) |-> _normalize(name, url, es[i])]

StrictKept(it) == _strict_keep(ItemText(it))
FallbackKept(it) == _fallback_keep(ItemText(it))

\* The test with <= for <.
FallbackNeeded_at_threshold(n) == n <= THRESH

\* len(items) < THRESH
FallbackNeeded(n) == n < THRESH

\* collect() from `items = _dedupe(items_strict)` up to the sort, with a
\* safety net: below 6 items, every raw item of an aggregator feed is added.
PreRanking_with_safety_net(raw, strict) ==
    LET first == collect_dedupe(strict)
        second == IF FallbackNeeded(Len(first))
                  THEN collect_dedupe(first \o SelectSeq(raw, FallbackKept))
                  ELSE first
        IsAggregator(it) == \/ Contains(it.source_url, "news.google.com")
                            \/ Contains(it.source_url, "bing.com")
    IN  IF Len(second) < 6
        THEN collect_dedupe(second \o SelectSeq(raw, IsAggregator))
        ELSE second

\* collect() from `items = _dedupe(items_strict)` up to the sort, the
\* fallback-kept items appended without the second _dedupe.
PreRanking_merge_undeduped(raw, strict) ==
    LET first == collect_dedupe(strict)
    IN  IF FallbackNeeded(Len(first))
        THEN first \o SelectSeq(raw, FallbackKept)
        ELSE first

\* collect() from `items = _dedupe(items_strict)` up to the sort.
PreRanking(raw, strict) ==
    LET first == collect_dedupe(strict)
    IN  IF FallbackNeeded(Len(first))
        THEN collect_dedupe(first \o SelectSeq(raw, FallbackKept))
        ELSE first

\* datetime.now(timezone.utc).strftime("%Y-%m-%d %H:%M:%S %Z")
Times == <<"2024-01-05 10:00:00 UTC", "2024-01-05 10:03:00 UTC">>

CollectInit ==
    /\ FunIdle
    /\ ServerIdle
    /\ cpc = "fetch"
    /\ fi = 1
    /\ items_raw = <<>>
    /\ items_strict = <<>>
    /\ items = <<>>
    /\ payload = "none"

\* One round of `for f in FEEDS`.
FetchFeed ==
    /\ cpc = "fetch"
    /\ \E entries \in EntriesOf(fi) :
          LET its == MapNormalize(FEEDS[fi].name, FEEDS[fi].url, entries)
          IN  /\ items_raw' = items_raw \o its
              /\ items_strict' = items_strict \o SelectSeq(its, StrictKept)
    /\ fi' = fi + 1
    /\ cpc' = IF fi = CollectFeeds THEN "filter" ELSE "fetch"
    /\ UNCHANGED <<items, payload, fvars, svars>>

\* _fetch_and_parse(url) raises: requests.get or raise_for_status raised
\* and so did feedparser.parse(url) in the except branch, which nothing
\* guards. The exception leaves collect(), and the script, before the write.
FetchRaises ==
    /\ cpc = "fetch"
    /\ cpc' = "raised"
    /\ UNCHANGED <<fi, items_raw, items_strict, items, payload, fvars, svars>>

\* From the first _dedupe to the end of the fallback pass.
Filter ==
    /\ cpc = "filter"
    /\ items' = PreRanking(items_raw, items_strict)
    /\ cpc' = "write"
    /\ UNCHANGED <<fi, items_raw, items_strict, payload, fvars, svars>>

\* The sort, the payload and the write of items.json.
Write ==
    /\ cpc = "write"
    /\ items' = CollectSort(items)
    /\ \E t \in 1..Len(Times) :
          payload' = [updated |-> Times[t], items |-> Prefix(items', MaxItems)]
    /\ cpc' = "done"
    /\ UNCHANGED <<fi, items_raw, items_strict, fvars, svars>>

CollectNext == FetchFeed \/ FetchRaises \/ Filter \/ Write

SpecCollect == CollectInit /\ [][CollectNext]_vars

-----------------------------------------------------------------------------
(* server.py: fetch_now and the read handlers, one step per access to the  *)
(* globals.                                                                *)

SERVER_FEEDS ==
    << [name |-> "Google News - Gamecocks Football",
        url  |-> "https://news.google.com/rss/search?q=%22South+Carolina%22+Gamecocks+football&hl=en-US&gl=US&ceid=US:en"],
       [name |-> "Google News - South Carolina Football",
        url  |-> "https://news.google.com/rss/search?q=%22South+Carolina%22+football&hl=en-US&gl=US&ceid=US:en"],
       [name |-> "Google News - Gamecocks",
        url  |-> "https://news.google.com/rss/search?q=Gamecocks+football&hl=en-US&gl=US&ceid=US:en"],
       [name |-> "Google News - Shane Beamer",
        url  |-> "https://news.google.com/rss/search?q=%22Shane+Beamer%22&hl=en-US&gl=US&ceid=US:en"],
       [name |-> "Bing News - Gamecocks Football",
        url  |-> "https://www.bing.com/news/search?q=South+Carolina+Gamecocks+football&format=rss"],
       [name |-> "Bing News - South Carolina Football",
        url  |-> "https://www.bing.com/news/search?q=%22South+Carolina%22+football&format=rss"],
       [name |-> "Bing News - Shane Beamer",
        url  |-> "https://www.bing.com/news/search?q=Shane+Beamer&format=rss"],
       [name |-> "Google - ESPN (SC Football)",
        url  |-> "https://news.google.com/rss/search?q=site:espn.com+%22South+Carolina%22+football&hl=en-US&gl=US&ceid=US:en"],
       [name |-> "Google - Yahoo Sports (SC Football)",
        url  |-> "https://news.google.com/rss/search?q=site:sports.yahoo.com+%22South+Carolina%22+football&hl=en-US&gl=US&ceid=US:en"],
       [name |-> "Google - CBS Sports (SC Football)",
        url  |-> "https://news.google.com/rss/search?q=site:cbssports.com+%22South+Carolina%22+football&hl=en-US&gl=US&ceid=US:en"],
       [name |-> "Google - 247Sports (SC)",
        url  |-> "https://news.google.com/rss/search?q=site:247sports.com+%22South+Carolina%22+Gamecocks&hl=en-US&gl=US&ceid=US:en"],
       [name |-> "Google - On3/GamecockCentral (SC)",
        url  |-> "https://news.google.com/rss/search?q=site:on3.com+%22South+Carolina%22+football&hl=en-US&gl=US&ceid=US:en"],
       [name |-> "Google - The State (Columbia)",
        url  |-> "https://news.google.com/rss/search?q=site:thestate.com+%22South+Carolina%22+football&hl=en-US&gl=US&ceid=US:en"],
       [name |-> "Google - Greenville News (SC Football)",
        url  |-> "https://news.google.com/rss/search?q=site:greenvilleonline.com+%22South+Carolina%22+football&hl=en-US&gl=US&ceid=US:en"],
       [name |-> "Google - Garnet & Black Attack",
        url  |-> "https://news.google.com/rss/search?q=site:garnetandblackattack.com+South+Carolina&hl=en-US&gl=US&ceid=US:en"],
       [name |-> "Garnet & Black Attack (RSS)",
        url  |-> "https://www.garnetandblackattack.com/rss/index.xml"],
       [name |-> "The State - USC Football (RSS)",
        url  |-> "https://www.thestate.com/sports/college/university-of-south-carolina/usc-football/?outputType=amp&type=rss"],
       [name |-> "Reddit - r/Gamecocks (RSS)",
        url  |-> "https://www.reddit.com/r/Gamecocks/.rss"],
       [name |-> "ESPN - CFB News",
        url  |-> "https://www.espn.com/espn/rss/ncf/news"] >>

ESPN_URL == "https://www.espn.com/espn/rss/ncf/news"

RECURSIVE Unescape(_)
\* html.unescape, for the one entity of the modelled texts
Unescape(s) ==
    IF s = "" THEN ""
    ELSE IF HasAt(s, 1, "&amp;") THEN "&" \o Unescape(SubSeq(s, 6, Len(s)))
    ELSE Head(s) \o Unescape(Tail(s))

\* (no "\xa0" occurs in the modelled texts)
_clean_text(s) == Strip(_strip_html(Unescape(s)))

\* A feed entry with its parsed dates: 0 for none, a positive number for a
\* struct_time (the epoch seconds time.mktime makes of it), -1 for a
\* struct_time time.mktime raises on.
SEntry(t, l, id, s, d, p, u, pp, up) ==
    [title |-> t, link |-> l, id |-> id, summary |-> s, description |-> d,
     published |-> p, updated |-> u, published_parsed |-> pp, updated_parsed |-> up]

\* ts of _norm: the try block around time.mktime
ParsedTs(e) ==
    IF e.published_parsed # 0
    THEN (IF e.published_parsed < 0 THEN 0 ELSE e.published_parsed)
    ELSE IF e.updated_parsed # 0
    THEN (IF e.updated_parsed < 0 THEN 0 ELSE e.updated_parsed)
    ELSE 0

\* _norm, but for "domain" and "when", which only the page shows
_norm(feed_name, feed_url, e) ==
    LET t == _clean_text(e.title)
        s == _clean_text(OrElse(e.summary, e.description))
    IN  [source     |-> feed_name,
         source_url |-> feed_url,
         title      |-> t,
         link       |-> OrElse(e.link, e.id),
         summary    |-> Prefix(s, SummaryMax),
         published  |-> OrElse(e.published, e.updated),
         _ts        |-> ParsedTs(e),
         _txt       |-> ServerText(t, s)]

RECURSIVE MapNorm(_, _, _)
MapNorm(name, url, es) ==
    IF es = <<>> THEN <<>>
    ELSE <<_norm(name, url, Head(es))>> \o MapNorm(name, url, Tail(es))

\* A parsed feed: its title ("" when it has none) and its entries.
Parsed(t, es) == [ok |-> TRUE, title |-> t, entries |-> es]

\* An exception of _http_get or of feedparser.parse in place of a feed.
Raised == [ok |-> FALSE, title |-> "", entries |-> <<>>]

\* Two on-topic entries of feed f, the second under a link every feed
\* carries.
FeedA(f) ==
    Parsed("",
      << SEntry("Gamecocks &amp; football", "https://example.com/" \o ToString(f) \o "/a",
                "", "", "", "Tue, 02 Jan", "", 1704189600, 0),
         SEntry("Shane Beamer", "https://example.com/shared", "", "<i>USC</i>", "",
                "Mon, 01 Jan", "", 1704103200, 0) >>)

\* A feed with a title of its own: the shared entry again without a parsed
\* date, one about another sport, and one without a link whose parsed
\* date time.mktime raises on.
FeedB(f) ==
    Parsed("Gamecocks Wire",
      << SEntry("Shane Beamer", "https://example.com/shared", "", "", "", "Mon, 01 Jan", "", 0, 0),
         SEntry("Gamecocks golf", "https://example.com/" \o ToString(f) \o "/golf",
                "", "", "", "Fri, 05 Jan", "", 1704189600, 0),
         SEntry("South Carolina", "", "", "", "spring game", "", "Tue, 02 Jan", -1, 1704103200) >>)

\* What the try block of feed f may come to.
FeedResults(f) == {Raised, FeedA(f), FeedB(f)}

\* What the ESPN feed of the `if not raw` branch may give.
EspnResults ==
    {Raised,
     Parsed("", << SEntry("South Carolina football", ESPN_URL \o "/1", "", "", "",
                          "Tue, 02 Jan", "", 1704189600, 0) >>)}

\* parsed.feed.get("title", default)
FeedName(parsed, default) == IF parsed.title # "" THEN parsed.title ELSE default

ServerKept(it) == _is_sc_football(it._txt)

\* kept, from line 208 to the slice of line 210
Ranked250(raw) == Prefix(ServerSort(_dedupe(SelectSeq(raw, ServerKept))), MaxItems)

ServerInit ==
    /\ FunIdle
    /\ CollectIdle
    /\ ITEMS = <<>>
    /\ UPDATED = "None"
    /\ _LAST_FETCH_TS = 0
    /\ _LOCK = "free"
    /\ wpc = [w \in Threads |-> IF w = "warm_start" THEN "acquire" ELSE "idle"]
    /\ wraw = [w \in Threads |-> <<>>]
    /\ clock = 1
    /\ rd = [pc |-> "idle", handler |-> "none", updated |-> "unread", items |-> <<>>]
    /\ cycles = {}

\* A /collect-open or /debug-collect request comes in and calls fetch_now.
Call(w) ==
    /\ w = "request"
    /\ wpc[w] = "idle"
    /\ wpc' = [wpc EXCEPT ![w] = "acquire"]
    /\ UNCHANGED <<ITEMS, UPDATED, _LAST_FETCH_TS, _LOCK, wraw, clock, rd, cycles>>

\* fetch_now entered without waiting for _LOCK.
Acquire_without_lock(w) ==
    /\ wpc[w] = "acquire"
    /\ _LOCK' = w
    /\ wraw' = [wraw EXCEPT ![w] = <<>>]
    /\ wpc' = [wpc EXCEPT ![w] = "fetch"]
    /\ UNCHANGED <<ITEMS, UPDATED, _LAST_FETCH_TS, clock, rd, cycles>>

\* with _LOCK: ... raw = []
Acquire(w) ==
    /\ wpc[w] = "acquire"
    /\ _LOCK = "free"
    /\ _LOCK' = w
    /\ wraw' = [wraw EXCEPT ![w] = <<>>]
    /\ wpc' = [wpc EXCEPT ![w] = "fetch"]
    /\ UNCHANGED <<ITEMS, UPDATED, _LAST_FETCH_TS, clock, rd, cycles>>

RECURSIVE RawOf(_, _)
\* raw after the first n rounds of `for f in FEEDS`, feed i coming to
\* rs[i]: the entries of a feed that raised are skipped (`continue`).
RawOf(rs, n) ==
    IF n = 0 THEN <<>>
    ELSE RawOf(rs, n - 1) \o
         (IF ~rs[n].ok THEN <<>>
          ELSE MapNorm(FeedName(rs[n], SERVER_FEEDS[n].name), SERVER_FEEDS[n].url,
                       rs[n].entries))

\* raw behind the `if not raw` block, the ESPN feed coming to r
WithEspn(raw, r) ==
    IF raw # <<>> \/ ~r.ok THEN raw
    ELSE MapNorm(FeedName(r, "ESPN CFB"), ESPN_URL, r.entries)

\* What the feeds fetch_now fetches may come to, feed by feed.
AllFeedResults ==
    {rs \in [1..ServerFeeds -> UNION {FeedResults(f) : f \in 1..ServerFeeds}] :
        \A f \in 1..ServerFeeds : rs[f] \in FeedResults(f)}

\* Every raw the loop `for f in FEEDS` and the `if not raw` block may
\* leave behind.
RawResults ==
    {WithEspn(RawOf(rs, ServerFeeds), r) : rs \in AllFeedResults, r \in EspnResults}

\* The loop `for f in FEEDS` and the `if not raw` block: they touch raw
\* and the network only.
Fetch(w) ==
    /\ wpc[w] = "fetch"
    /\ \E raw \in RawResults : wraw' = [wraw EXCEPT ![w] = raw]
    /\ wpc' = [wpc EXCEPT ![w] = "store_items"]
    /\ UNCHANGED <<ITEMS, UPDATED, _LAST_FETCH_TS, _LOCK, clock, rd, cycles>>

\* kept[:250] of lines 208 to 210 for every raw the fetches may leave behind
RankedOf == [raw \in RawResults |-> Ranked250(raw)]

\* kept = ...; kept.sort(...); ITEMS = kept[:250]
StoreItems(w) ==
    /\ wpc[w] = "store_items"
    /\ ITEMS' = RankedOf[wraw[w]]
    /\ wpc' = [wpc EXCEPT ![w] = "store_updated"]
    /\ UNCHANGED <<UPDATED, _LAST_FETCH_TS, _LOCK, wraw, clock, rd, cycles>>

\* UPDATED = datetime.now(timezone.utc).strftime(...)
StoreUpdated(w) ==
    /\ wpc[w] = "store_updated"
    /\ UPDATED' = Times[clock]
    /\ cycles' = cycles \cup {<<UPDATED', ITEMS>>}
    /\ wpc' = [wpc EXCEPT ![w] = "store_ts"]
    /\ UNCHANGED <<ITEMS, _LAST_FETCH_TS, _LOCK, wraw, clock, rd>>

\* _LAST_FETCH_TS = time.time()
StoreTs(w) ==
    /\ wpc[w] = "store_ts"
    /\ _LAST_FETCH_TS' = clock
    /\ wpc' = [wpc EXCEPT ![w] = "release"]
    /\ UNCHANGED <<ITEMS, UPDATED, _LOCK, wraw, clock, rd, cycles>>

\* return ...: the with block releases _LOCK and the local raw is gone
Release(w) ==
    /\ wpc[w] = "release"
    /\ _LOCK' = "free"
    /\ wraw' = [wraw EXCEPT ![w] = <<>>]
    /\ wpc' = [wpc EXCEPT ![w] = "ended"]
    /\ UNCHANGED <<ITEMS, UPDATED, _LAST_FETCH_TS, clock, rd, cycles>>

\* A second passes.
Tick ==
    /\ clock < Len(Times)
    /\ clock' = clock + 1
    /\ UNCHANGED <<ITEMS, UPDATED, _LAST_FETCH_TS, _LOCK, wpc, wraw, rd, cycles>>

Handlers == {"home", "items_json", "health"}

\* A request for /, /items.json or /health comes in.
Request(h) ==
    /\ rd.pc = "idle"
    /\ rd' = [pc |-> "first", handler |-> h, updated |-> "unread", items |-> <<>>]
    /\ UNCHANGED <<ITEMS, UPDATED, _LAST_FETCH_TS, _LOCK, wpc, wraw, clock, cycles>>

\* The handler loads the first global it names: home ITEMS (items=ITEMS
\* comes before updated=UPDATED), items_json and health UPDATED.
ReadFirst ==
    /\ rd.pc = "first"
    /\ rd' = IF rd.handler = "home"
             THEN [rd EXCEPT !.items = ITEMS, !.pc = "second"]
             ELSE [rd EXCEPT !.updated = UPDATED,
                             !.pc = IF rd.handler = "health" THEN "done" ELSE "second"]
    /\ UNCHANGED <<ITEMS, UPDATED, _LAST_FETCH_TS, _LOCK, wpc, wraw, clock, cycles>>

\* The handler loads the second global and answers.
ReadSecond ==
    /\ rd.pc = "second"
    /\ rd' = IF rd.handler = "home"
             THEN [rd EXCEPT !.updated = UPDATED, !.pc = "done"]
             ELSE [rd EXCEPT !.items = ITEMS, !.pc = "done"]
    /\ UNCHANGED <<ITEMS, UPDATED, _LAST_FETCH_TS, _LOCK, wpc, wraw, clock, cycles>>

ServerNext ==
    \/ \E w \in Threads :
          \/ Call(w) \/ Acquire(w) \/ Fetch(w)
          \/ StoreItems(w) \/ StoreUpdated(w) \/ StoreTs(w) \/ Release(w)
    \/ Tick
    \/ \E h \in Handlers : Request(h)
    \/ ReadFirst
    \/ ReadSecond

SpecServer == ServerInit /\ [][ServerNext /\ UNCHANGED <<fvars, cvars>>]_vars

-----------------------------------------------------------------------------
(* The claims about the classifiers.                                       *)

\* The text the collector classifies, and the text the server classifies.
ArgText == CollectText(arg.title, arg.summary)
ArgTxt == ServerText(arg.title, arg.summary)
Classified == fpc = "classified"

\* C1: a text that matches an EXCLUDE_OTHER_SPORTS pattern is rejected by
\* _strict_keep and by _fallback_keep whatever else it matches, and a text
\* that contains a NEG_OTHER_SPORTS token is rejected by _is_sc_football.
C1_ExclusionPrecedence ==
    Classified =>
        /\ (_matches_any(EXCLUDE_OTHER_SPORTS, ArgText) => (~res.strict /\ ~res.fallback))
        /\ (AnyIn(NEG_OTHER_SPORTS, ArgTxt) => ~res.serve)

\* A classified text with both a strong token and an other-sports token.
C1_Witness ==
    /\ Classified
    /\ _matches_any(EXCLUDE_OTHER_SPORTS, ArgText)
    /\ _matches_any(STRONG_ANY, ArgText)
    /\ AnyIn(NEG_OTHER_SPORTS, ArgTxt)
    /\ AnyIn(POS_STRONG, ArgTxt)

\* C6: a text that matches a STRONG_ANY pattern and no EXCLUDE_OTHER_SPORTS
\* pattern is kept by _strict_keep, whatever else it holds.
C6_StrongSufficient ==
    Classified =>
        ((/\ _matches_any(STRONG_ANY, ArgText)
          /\ ~_matches_any(EXCLUDE_OTHER_SPORTS, ArgText)) => res.strict)

\* A kept text with a strong token, a Trojans token and no football term.
C6_Witness ==
    /\ Classified
    /\ _matches_any(STRONG_ANY, ArgText)
    /\ _matches_any(NEGATIVE_USC, ArgText)
    /\ ~_matches_any(FOOTBALL_TERMS, ArgText)
    /\ ~_matches_any(EXCLUDE_OTHER_SPORTS, ArgText)
    /\ res.strict

\* C7 as claimed: a text that matches a NEGATIVE_USC pattern is rejected by
\* _strict_keep and by _fallback_keep whatever else it matches.
C7_NegativeAlwaysRejects ==
    Classified =>
        (_matches_any(NEGATIVE_USC, ArgText) => (~res.strict /\ ~res.fallback))

\* C7 as amended: a text that matches a NEGATIVE_USC pattern is rejected by
\* _fallback_keep, and is kept by _strict_keep exactly when it also matches
\* a STRONG_ANY pattern and no EXCLUDE_OTHER_SPORTS pattern.
C7_NegativeRejectsUnlessStrong ==
    Classified =>
        (_matches_any(NEGATIVE_USC, ArgText) =>
            (/\ ~res.fallback
            /\ res.strict = (/\ _matches_any(STRONG_ANY, ArgText)
                             /\ ~_matches_any(EXCLUDE_OTHER_SPORTS, ArgText))))

\* A rejected text with the ambiguous name, a football term and a Trojans
\* token, and no strong token.
C7_Witness ==
    /\ Classified
    /\ _matches_any(NEGATIVE_USC, ArgText)
    /\ _matches_any(SC_OR_USC, ArgText)
    /\ _matches_any(FOOTBALL_TERMS, ArgText)
    /\ ~_matches_any(STRONG_ANY, ArgText)
    /\ ~_matches_any(EXCLUDE_OTHER_SPORTS, ArgText)
    /\ ~res.strict /\ ~res.fallback

\* The texts with the ambiguous name and nothing else that counts.
OnlyAmbiguousName(text) ==
    /\ _matches_any(SC_OR_USC, text)
    /\ ~_matches_any(STRONG_ANY, text)
    /\ ~_matches_any(FOOTBALL_TERMS, text)
    /\ ~_matches_any(NEGATIVE_USC, text)
    /\ ~_matches_any(EXCLUDE_OTHER_SPORTS, text)

\* C8: a text that matches an SC_OR_USC pattern and no STRONG_ANY,
\* FOOTBALL_TERMS, NEGATIVE_USC or EXCLUDE_OTHER_SPORTS pattern is rejected
\* by _strict_keep and kept by _fallback_keep.
C8_FallbackRelaxation ==
    Classified => (OnlyAmbiguousName(ArgText) => (~res.strict /\ res.fallback))

\* A classified text with only the ambiguous name.
C8_Witness ==
    /\ Classified
    /\ OnlyAmbiguousName(ArgText)
    /\ ~res.strict /\ res.fallback

-----------------------------------------------------------------------------
(* The claims about _dedupe and the sort.                                  *)

\* Two items are duplicates: the same non-empty link, or both without a
\* link and the same title and source.
SameKey(a, b) ==
    \/ a.link # "" /\ b.link # "" /\ a.link = b.link
    \/ a.link = "" /\ b.link = "" /\ a.title = b.title /\ a.source = b.source

\* The subsequence of lst[1..n] made of the first occurrence of each key.
FirstOccurrences(lst, n) ==
    IF n = 0 THEN <<>>
    ELSE LET first == SelectSeq([i \in 1..n |-> i],
                                LAMBDA i : \A j \in 1..(i - 1) : ~SameKey(lst[j], lst[i]))
         IN  IF first = <<>> THEN <<>> ELSE [p \in 1..Len(first) |-> lst[first[p]]]

Deduped == fpc = "deduped"

\* C9: _dedupe (server.py's and collect()'s) returns the subsequence made of
\* the first occurrence of each key, the key being the link when it is not
\* empty and else the pair (title, source); an item with a link is never
\* collapsed with an item without one.
C9_DedupeFirstOccurrence ==
    Deduped =>
        /\ res.server = FirstOccurrences(arg, Len(arg))
        /\ res.collect = FirstOccurrences(arg, Len(arg))

\* A call that dropped a later item with the link of an earlier one and a
\* later item without a link with the title and source of an earlier one,
\* and kept an item without a link whose title and source an item with a
\* link has.
C9_Witness ==
    /\ Deduped
    /\ Len(arg) = 3
    /\ \E i, j \in 1..3 : i < j /\ arg[i].link # "" /\ arg[i].link = arg[j].link
                             /\ arg[i] # arg[j]
    /\ Len(res.server) = 2
    /\ \E i, j \in 1..2 : /\ res.server[i].link # "" /\ res.server[j].link = ""
                            /\ res.server[i].title = res.server[j].title
                            /\ res.server[i].source = res.server[j].source

\* The position in the sorted call's input of the item with this link.
InputPos(link) == CHOOSE i \in 1..Len(arg) : arg[i].link = link

Ranked == fpc = "ranked"

\* C10 as claimed: the ranked output is ordered by numeric timestamp,
\* descending, and two items with equal or missing (zero) timestamps keep
\* the order they had in the input.
C10_StableOnTimestamp ==
    Ranked =>
        \A i, j \in 1..Len(res.server) : i < j =>
            /\ res.server[i]._ts >= res.server[j]._ts
            /\ (res.server[i]._ts = res.server[j]._ts =>
                    InputPos(res.server[i].link) < InputPos(res.server[j].link))

\* out holds the items of the input, each once.
SameItems(out) ==
    /\ Len(out) = Len(arg)
    /\ \A i \in 1..Len(arg) : \E j \in 1..Len(out) : out[j] = arg[i]

\* C10 as amended: fetch_now's ranked output is ordered by the pair
\* (timestamp, published string), descending: never ascending in the
\* timestamp, among equal (or missing, zero) timestamps descending in the
\* published string compared as text, and only items equal in both keep
\* their input order. collect() has no numeric timestamp: its output is
\* ordered by the published string alone, descending, equal strings keeping
\* their input order.
C10_StableOnSortKey ==
    Ranked =>
        /\ SameItems(res.server)
        /\ SameItems(res.collect)
        /\ \A i, j \in 1..Len(res.server) : i < j =>
              /\ res.server[i]._ts >= res.server[j]._ts
              /\ (res.server[i]._ts = res.server[j]._ts =>
                    ~StrLess(res.server[i].published, res.server[j].published))
              /\ ((/\ res.server[i]._ts = res.server[j]._ts
                   /\ res.server[i].published = res.server[j].published) =>
                    InputPos(res.server[i].link) < InputPos(res.server[j].link))
        /\ \A i, j \in 1..Len(res.collect) : i < j =>
              /\ ~StrLess(res.collect[i].published, res.collect[j].published)
              /\ (res.collect[i].published = res.collect[j].published =>
                    InputPos(res.collect[i].link) < InputPos(res.collect[j].link))

\* A sorted list in which two items of equal timestamp changed places and
\* two items equal in timestamp and published string did not.
C10_Witness ==
    /\ Ranked
    /\ Len(arg) = 3
    /\ \E i, j \in 1..3 : /\ i < j
                           /\ res.server[i]._ts = res.server[j]._ts
                           /\ InputPos(res.server[i].link) > InputPos(res.server[j].link)
    /\ \E i, j \in 1..3 : /\ i < j
                           /\ res.server[i]._ts = res.server[j]._ts
                           /\ res.server[i].published = res.server[j].published
                           /\ InputPos(res.server[i].link) < InputPos(res.server[j].link)

-----------------------------------------------------------------------------
(* The claims about collect()'s fallback pass.                             *)

\* x is one of the items of the list s.
InList(x, s) == \E i \in 1..Len(s) : s[i] = x

\* The list s holds an item with the dedupe key of x.
KeyInList(x, s) == \E i \in 1..Len(s) : SameKey(s[i], x)

\* The raw items that pass the fallback rule, in raw order.
FallbackExtras == SelectSeq(items_raw, FallbackKept)

\* The strict-kept items, first occurrence of each key only.
StrictDeduped == FirstOccurrences(items_strict, Len(items_strict))

\* The strict-kept items followed by the fallback-kept ones, first
\* occurrence of each key only.
StrictThenFallback ==
    FirstOccurrences(items_strict \o FallbackExtras, Len(items_strict) + Len(FallbackExtras))

\* The feed of the item is one of the aggregators the safety net trusts
\* (feeds.py puts the Google News and Bing News searches first, "to
\* guarantee items").
FromAggregator(it) ==
    \/ Contains(it.source_url, "news.google.com")
    \/ Contains(it.source_url, "bing.com")

\* C4 as claimed: when the result is still below 6 items after the fallback
\* pass, every raw item of a safety-net aggregator feed is in the
\* pre-ranking result (itself, or an earlier item of the same key).
C4_SafetyNetAdded ==
    (cpc = "write" /\ Len(StrictThenFallback) < 6) =>
        \A i \in 1..Len(items_raw) :
            FromAggregator(items_raw[i]) => KeyInList(items_raw[i], items)

\* C4 as amended: collect() has no safety-net tier. Whatever the count after
\* the fallback pass, also below 6, the pre-ranking result holds only raw
\* items that pass _strict_keep or _fallback_keep, and below 6 it is the
\* deduplicated strict-then-fallback list as it stands: a raw item that
\* passes neither rule is never added, whatever its source_url.
C4_NoSafetyNet ==
    cpc = "write" =>
        /\ \A i \in 1..Len(items) :
              /\ InList(items[i], items_raw)
              /\ StrictKept(items[i]) \/ FallbackKept(items[i])
        /\ (Len(items) < 6 => items = StrictThenFallback)

\* A result of fewer than 6 items, not empty, that leaves out an off-topic
\* raw item of an aggregator feed.
C4_Witness ==
    /\ cpc = "write"
    /\ Len(items) > 0
    /\ Len(items) < 6
    /\ \E i \in 1..Len(items_raw) :
          /\ FromAggregator(items_raw[i])
          /\ ~StrictKept(items_raw[i]) /\ ~FallbackKept(items_raw[i])
          /\ ~KeyInList(items_raw[i], items)

\* C5: the fallback pass runs exactly when fewer than 12 strict-kept items
\* are left after _dedupe. Then the pre-ranking result is the strict-kept
\* items followed by every raw item that passes _fallback_keep,
\* deduplicated; with 12 or more it is the deduplicated strict-kept list,
\* and every item in it passes _strict_keep.
C5_FallbackBelowThreshold ==
    cpc = "write" =>
        /\ items_strict = SelectSeq(items_raw, StrictKept)
        /\ IF Len(StrictDeduped) < 12
           THEN items = StrictThenFallback
           ELSE /\ items = StrictDeduped
                /\ \A i \in 1..Len(items) : StrictKept(items[i])

\* A run with 11 strict-kept items after _dedupe whose result holds an item
\* the strict rule rejects, next to a strict-kept item the fallback rule
\* rejects.
C5_Witness ==
    /\ cpc = "write"
    /\ Len(StrictDeduped) = 11
    /\ Len(items) > 11
    /\ \E i \in 1..Len(items) : ~StrictKept(items[i]) /\ FallbackKept(items[i])
    /\ \E i \in 1..Len(items) : StrictKept(items[i]) /\ ~FallbackKept(items[i])


-----------------------------------------------------------------------------
(* The claims about the snapshot of server.py.                             *)

\* A cycle of fetch_now that got nothing from any feed nor from ESPN is
\* about to assign ITEMS while an earlier cycle's items are being served.
FailedCycleStores(w) ==
    /\ wpc[w] = "store_items"
    /\ wraw[w] = <<>>
    /\ ITEMS # <<>>

\* C2: a cycle in which every fetch failed, run while a non-empty snapshot
\* is published, leaves the served items as they were.
C2_FailedCycleKeepsSnapshot ==
    [][\A w \in Threads : FailedCycleStores(w) => ITEMS' = ITEMS]_vars

\* The (updated, items) pairs a reader may be given: the initial pair and
\* the pair each finished assignment of ITEMS and UPDATED produced.
PublishedPairs == cycles \cup {<<"None", <<>>>>}

\* C3: every answer of home and items_json carries an (updated, items) pair
\* that one cycle produced together, or the initial pair.
C3_ReadsOnePublishedPair ==
    (rd.pc = "done" /\ rd.handler \in {"home", "items_json"}) =>
        <<rd.updated, rd.items>> \in PublishedPairs


-----------------------------------------------------------------------------
(* The claims about _LOCK.                                                 *)

\* The positions of fetch_now inside `with _LOCK:`.
InsideLock == {"fetch", "store_items", "store_updated", "store_ts", "release"}

\* A step of a thread that runs fetch_now.
ThreadStep(w) ==
    \/ Call(w) \/ Acquire(w) \/ Fetch(w)
    \/ StoreItems(w) \/ StoreUpdated(w) \/ StoreTs(w) \/ Release(w)

\* The invocations of fetch_now alone, no read handler in flight.
LockNext ==
    \/ \E w \in Threads : ThreadStep(w)
    \/ Tick

\* The threads keep running: a thread that can take a step of fetch_now
\* (the lock free for Acquire) eventually takes one.
SpecLock ==
    /\ ServerInit
    /\ [][LockNext /\ UNCHANGED <<fvars, cvars>>]_vars
    /\ \A w \in Threads : WF_vars(ThreadStep(w) /\ UNCHANGED <<fvars, cvars>>)

\* C11: at most one invocation of fetch_now is inside `with _LOCK:`, the
\* lock is held by exactly that invocation, and an invocation that has the
\* lock comes to release it.
C11_MutualExclusion ==
    /\ [](\A v, w \in Threads : (wpc[v] \in InsideLock /\ wpc[w] \in InsideLock) => v = w)
    /\ [](\A w \in Threads : (_LOCK = w) <=> (wpc[w] \in InsideLock))
    /\ \A w \in Threads : (_LOCK = w) ~> (wpc[w] = "ended" /\ _LOCK # w)

\* One invocation waits for the lock while the other is between its writes
\* to ITEMS and UPDATED.
C11_Witness ==
    /\ wpc["warm_start"] = "acquire"
    /\ wpc["request"] = "store_updated"
    /\ _LOCK = "request"


-----------------------------------------------------------------------------
(* The claims about failing sources.                                       *)

\* C12: whatever the fetches of its feeds come to, a run of collect() goes
\* on to the next feed and to the write of items.json: no failure of a
\* source ends it.
C12_FailedSourceNeverAborts == cpc # "raised"


-----------------------------------------------------------------------------
(* The claims about the items a cycle publishes.                           *)

\* collect() has written items.json: items is the sorted list, payload the
\* content of the file.
Written == cpc = "done"

\* C13: the items of items.json are the first min(n, 250) items of the
\* sorted deduplicated list of n items, in its order, and no item left out
\* sorts ahead of an item that is in.
C13_FirstItemsKept ==
    Written =>
        LET n == Len(items)
            m == Len(payload.items)
        IN  /\ m = (IF n < MaxItems THEN n ELSE MaxItems)
            /\ \A i \in 1..m : payload.items[i] = items[i]
            /\ \A i \in 1..m : \A j \in (m + 1)..n :
                   ~CollectKeyLess(items[i], items[j])

\* A run that sorted more items than items.json may hold and wrote the
\* first 250, some item left out having the published string of one kept.
C13_Witness ==
    /\ Written
    /\ Len(items) > MaxItems
    /\ Len(payload.items) = MaxItems
    /\ items[MaxItems].published = items[MaxItems + 1].published


-----------------------------------------------------------------------------
(* The claims that compare the filters.                                    *)

StrongAndNoOtherSport(txt) == AnyIn(POS_STRONG, txt) /\ ~AnyIn(NEG_OTHER_SPORTS, txt)

\* The Trojans guard of _is_sc_football: "usc" beside a NEG_TROJANS token.
TrojansGuard(txt) == Contains(txt, "usc") /\ AnyIn(NEG_TROJANS, txt)

\* The North Carolina guard of _is_sc_football: a NEG_UNC token in a text
\* with neither "south carolina" nor "gamecocks".
NorthCarolinaGuard(txt) ==
    /\ AnyIn(NEG_UNC, txt)
    /\ ~Contains(txt, "south carolina")
    /\ ~Contains(txt, "gamecocks")

\* C15 as claimed: _is_sc_football keeps every text with a POS_STRONG token
\* and no NEG_OTHER_SPORTS token.
C15_ServerStrongSufficient ==
    Classified => (StrongAndNoOtherSport(ArgTxt) => res.serve)

\* C15 as amended: _is_sc_football keeps a text with a POS_STRONG token and
\* no NEG_OTHER_SPORTS token exactly when neither the Trojans guard nor the
\* North Carolina guard applies to it.
C15_ServerStrongUnlessGuarded ==
    Classified =>
        (StrongAndNoOtherSport(ArgTxt) =>
            (res.serve <=> (~TrojansGuard(ArgTxt) /\ ~NorthCarolinaGuard(ArgTxt))))

\* A text with a strong token beside "usc trojans", rejected by the server
\* filter.
C15_Witness ==
    /\ Classified
    /\ StrongAndNoOtherSport(ArgTxt)
    /\ TrojansGuard(ArgTxt)
    /\ ~res.serve


\* A run of collect() or a life of the server: what either publishes.
SnapshotInit == CollectInit \/ ServerInit

SnapshotNext == CollectNext \/ (ServerNext /\ UNCHANGED <<fvars, cvars>>)

SpecSnapshot == SnapshotInit /\ [][SnapshotNext]_vars

\* No two items of the list s have the same dedupe key.
NoDuplicateKeys(s) == \A i, j \in 1..Len(s) : SameKey(s[i], s[j]) => i = j

\* collect() is past its fallback pass: items is the merged list, and
\* behind the sort the ranked one.
Merged == cpc \in {"write", "done"}

\* The strict-kept item items_strict[i] is the first of its key there.
FirstStrict(i) == \A j \in 1..(i - 1) : ~SameKey(items_strict[j], items_strict[i])

\* C16: the served ITEMS, collect()'s items behind the fallback pass and
\* behind the sort, and the items of items.json never hold two items of
\* the same dedupe key; and the first strict-kept item of each key is
\* itself among collect()'s items, whatever the fallback pass added.
C16_NoDuplicateKeys ==
    /\ NoDuplicateKeys(ITEMS)
    /\ (Merged => NoDuplicateKeys(items))
    /\ (Written => NoDuplicateKeys(payload.items))
    /\ (Merged => \A i \in 1..Len(items_strict) :
                     FirstStrict(i) => InList(items_strict[i], items))

\* A run of collect() whose fallback pass met a raw item that passes the
\* fallback rule only, ahead in raw order of a strict-kept item of the
\* same link: the strict-kept one is in items.json, the other is not.
C16_Witness ==
    /\ Written
    /\ \E i \in 1..Len(items_strict) : \E r \in 1..Len(items_raw) :
          /\ SameKey(items_raw[r], items_strict[i])
          /\ items_raw[r] # items_strict[i]
          /\ FallbackKept(items_raw[r]) /\ ~StrictKept(items_raw[r])
          /\ \A q \in 1..(r - 1) : ~SameKey(items_raw[q], items_raw[r])
          /\ InList(items_strict[i], payload.items)
          /\ ~InList(items_raw[r], payload.items)
    /\ Len(payload.items) < THRESH

=============================================================================
